---- MODULE Spec2Model ----
(***************************************************************************)
(* Model of the resume optimiser's convergence loop                        *)
(* (backend/services/claude_service.py, optimize_resume) and of the        *)
(* compiler adapter it drives (backend/services/latex_service.py,          *)
(* compile_latex_to_pdf).                                                  *)
(*                                                                         *)
(* The loop is one sequential process; pc is its position.  The adapter    *)
(* is called from four places of the loop; cpc is its position.  The       *)
(* generation service, the compiler binary and the file system are the     *)
(* environment: what they return or raise is chosen with \E.               *)
(*                                                                         *)
(* Texts.  A document is identified by the generation call that returned   *)
(* it: 0 is the caller's input, k > 0 the sanitized reply of the k-th      *)
(* generation call.  A log is a sequence of lines, a line a sequence of    *)
(* tokens, an error message a sequence of lines.                           *)
(*                                                                         *)
(* The sanitizer _clean_latex_response is a pure function of a reply's     *)
(* text.  It is modelled on texts that are sequences of tokens: the fence  *)
(* marker "```", the language tag "latex", a whitespace character and a    *)
(* character of content; SanSpec applies it to every such text up to a     *)
(* length, and to its own result.                                          *)
(***************************************************************************)
EXTENDS Naturals, Integers, Sequences, FiniteSets, TLC

VARIABLES
    pc,              \* position of optimize_resume
    optimized_latex, \* the current candidate
    conversation,    \* the transcript (list of turns)
    sent,            \* the messages= argument of the latest generation call
    attempt,         \* loop variable of the fix loop (line 190)
    shrink,          \* loop variable of the shrink loop (line 215)
    compile_error,   \* compile_error of optimize_resume
    page_count,      \* page_count of optimize_resume
    result,          \* the dict optimize_resume returned, NoResult before
    raised,          \* the exception the except clause of line 249 caught
    genCalls,        \* history: calls of client.messages.create
    fixCalls,        \* history: calls of _ask_claude_to_fix
    shrinkCalls,     \* history: calls of _ask_claude_to_shrink
    compileAttempts, \* history: calls of compile_latex_to_pdf
    history,         \* history: what each compile attempt returned, in order
    pdflatexInstalled, \* environment: pdflatex is on the PATH (fixed for a run)
    cpc,             \* position of compile_latex_to_pdf
    run_num,         \* loop variable of the pass loop (line 67)
    tempDirExists,   \* temp_dir exists on disk
    logFile,         \* content of resume.log in temp_dir, NoLog if absent
    pdfExists,       \* resume.pdf exists in temp_dir
    returncode,      \* result.returncode of the latest pass
    cpage,           \* page_count of compile_latex_to_pdf
    logParsed,       \* history: this attempt read the log
    passesRun,       \* history: passes this attempt started
    ret,             \* the tuple compile_latex_to_pdf returns
    text,            \* the argument of _clean_latex_response
    cleaned,         \* what _clean_latex_response(text) returned
    cleanedAgain,    \* what _clean_latex_response(cleaned) returned
    spc              \* position of the sanitizer's run: "off", "raw", "once", "twice"

loopVars == <<pc, optimized_latex, conversation, sent, attempt, shrink,
              compile_error, page_count, result, raised>>
histVars == <<genCalls, fixCalls, shrinkCalls, compileAttempts, history>>
compVars == <<cpc, run_num, tempDirExists, logFile, pdfExists, returncode,
              cpage, logParsed, passesRun, ret>>
sanVars == <<text, cleaned, cleanedAgain, spc>>
vars == <<loopVars, histVars, compVars, pdflatexInstalled, sanVars>>

----------------------------------------------------------------------------
(* Bounds of the environment *)

\* the largest page count a log reports
MaxPages == 3
\* the longest text given to the sanitizer, in tokens
MaxTextLen == 6

(* Program constants *)

MAX_FIX_ATTEMPTS == 2
MAX_PAGE_SHRINK_ATTEMPTS == 2
\* range(1, 3) of the pass loop: the last pass
LAST_PASS == 2
\* lines[i:i+5]: the excerpt's length
EXCERPT_LINES == 5

Original == 0
NoError == << >>
NoLog == << <<"<no file>">> >>
NoResult == [success |-> FALSE, optimized_latex |-> Original, summary |-> << >>, returned |-> FALSE]
NoExc == [src |-> "none", msg |-> ""]
NoRet == [pdf_bytes |-> FALSE, error |-> NoError, page_count |-> 0, kind |-> "none"]

Truthy(e) == e # NoError

----------------------------------------------------------------------------
(* The log: lines of tokens *)

Digits == <<"0", "1", "2", "3", "4", "5", "6", "7", "8", "9">>
DigitTokens == {Digits[d] : d \in 1..Len(Digits)}
IsDigits(tok) == tok \in DigitTokens
DigitValue == [t \in DigitTokens |-> (CHOOSE d \in 1..Len(Digits) : Digits[d] = t) - 1]
\* int(match.group(1))
ToInt(tok) == DigitValue[tok]

OutputLine(n) ==
    <<"Output written on ", "resume.pdf ", "(", Digits[n + 1], " page", "s, 4096 bytes).">>

LogPages(n) == << <<"This is pdfTeX">>, OutputLine(n), <<"Transcript written on resume.log.">> >>
LogNoOutputLine == << <<"This is pdfTeX">>, <<"(./resume.aux)">> >>
LogFatal ==
    << <<"This is pdfTeX">>,
       <<"!", " Undefined control sequence.">>,
       <<"l.12 ", "\\resumeItm">>,
       << >>,
       <<"!", "  ==> Fatal error occurred, no output PDF file produced!">>,
       <<"Transcript written on resume.log.">>,
       <<"trailer">> >>
LogFatalShort == << <<"!", " Emergency stop.">>, <<"<*> resume.tex">> >>
LogNoMarker == << <<"This is pdfTeX">>, <<"No pages of output.">> >>

Logs == {LogPages(n) : n \in 1..MaxPages}
        \cup {LogNoOutputLine, LogFatal, LogFatalShort, LogNoMarker, NoLog}

\* re.search(r"Output written on .+?\((\d+) pages?", ...) within one line:
\* the pairs <<i, j>> of a token i that opens a match and a "(" at j, at least
\* one token later, that is followed by digits and " page"
Matches(line) ==
    {m \in (1..Len(line)) \X (1..Len(line)) :
        /\ line[m[1]] = "Output written on "
        /\ m[2] >= m[1] + 2
        /\ line[m[2]] = "("
        /\ m[2] + 2 <= Len(line)
        /\ IsDigits(line[m[2] + 1])
        /\ line[m[2] + 2] = " page"}
\* the leftmost match, its .+? as short as can be
FirstMatch(S) ==
    CHOOSE m \in S : \A n \in S : m[1] < n[1] \/ (m[1] = n[1] /\ m[2] <= n[2])
\* match.group(1) of the first match in the line
MatchGroup(line) == line[FirstMatch(Matches(line))[2] + 1]
Min(S) == CHOOSE x \in S : \A y \in S : x <= y

\* a parse that answers -1 for "not found"
ParsePageCountMinusOne(log) ==
    IF log = NoLog THEN 0 - 1
    ELSE LET hits == {k \in 1..Len(log) : Matches(log[k]) # {}}
         IN  IF hits = {} THEN 0 - 1 ELSE ToInt(MatchGroup(log[Min(hits)]))

\* _parse_page_count(log_path)
ParsePageCount(log) ==
    IF log = NoLog THEN 0
    ELSE LET hits == {k \in 1..Len(log) : Matches(log[k]) # {}}
         IN  IF hits = {} THEN 0 ELSE ToInt(MatchGroup(log[Min(hits)]))

\* line.startswith("!")
StartsWithBang(line) == Len(line) > 0 /\ line[1] = "!"

GenericMsg == << <<"PDF compilation failed.">> >>
TimeoutMsg == << <<"LaTeX compilation timed out after 60 seconds.">> >>
NotFoundMsg == << <<"pdflatex not found. Please ensure LaTeX is installed and in PATH.">> >>
ExceptionMsg(e) == << <<"Compilation error: ", e>> >>

\* a scan of the log without its break: the last line with "!" wins
ErrorMsgLastBang(log) ==
    IF log = NoLog THEN GenericMsg
    ELSE LET bangs == {i \in 1..Len(log) : StartsWithBang(log[i])}
         IN  IF bangs = {} THEN GenericMsg
             ELSE LET i == CHOOSE x \in bangs : \A y \in bangs : y <= x
                      last == IF i + EXCERPT_LINES - 1 <= Len(log)
                              THEN i + EXCERPT_LINES - 1 ELSE Len(log)
                  IN  SubSeq(log, i, last)

\* lines 112-121: the error message when resume.pdf is absent
ErrorMsg(log) ==
    IF log = NoLog THEN GenericMsg
    ELSE LET bangs == {i \in 1..Len(log) : StartsWithBang(log[i])}
         IN  IF bangs = {} THEN GenericMsg
             ELSE LET i == Min(bangs)
                      last == IF i + EXCERPT_LINES - 1 <= Len(log)
                              THEN i + EXCERPT_LINES - 1 ELSE Len(log)
                  IN  SubSeq(log, i, last)

\* the two readings of the log, tabulated over the logs of the model
PageCountOf == [log \in Logs |-> ParsePageCount(log)]
ErrorMsgOf == [log \in Logs |-> ErrorMsg(log)]

\* what the environment can make compile_latex_to_pdf raise
WriteErrors == {"OSError"}
PassErrors == {"OSError"}
ReadErrors == {"OSError"}
MkdtempErrors == {"mkdtemp: OSError"}
\* what the generation service can make client.messages.create raise
GenErrors == {"APIConnectionError"}

----------------------------------------------------------------------------
(* _clean_latex_response: texts as sequences of tokens *)

\* the three backquotes of a fence marker, as one token
Fence == "<fence>"
Tag == "latex"
\* a whitespace character
Space == " "
\* a character of content
Other == "X"
Alphabet == {Fence, Tag, Space, Other}
Texts == UNION {[1..n -> Alphabet] : n \in 0..MaxTextLen}

\* t.startswith(p), t.endswith(p)
StartsWith(t, p) == Len(t) >= Len(p) /\ SubSeq(t, 1, Len(p)) = p
EndsWith(t, p) == Len(t) >= Len(p) /\ SubSeq(t, Len(t) - Len(p) + 1, Len(t)) = p
\* t[k:] and t[:-k], k counted in tokens
DropFirst(t, k) == SubSeq(t, k + 1, Len(t))
DropLast(t, k) == SubSeq(t, 1, Len(t) - k)

\* t.strip()
Strip(t) ==
    LET solid == {i \in 1..Len(t) : t[i] # Space}
    IN  IF solid = {} THEN << >>
        ELSE SubSeq(t, CHOOSE i \in solid : \A j \in solid : i <= j,
                       CHOOSE i \in solid : \A j \in solid : j <= i)

\* a sanitizer that knows the bare marker only
StripPrefixBareOnly(t) ==
    IF StartsWith(t, <<Fence>>) THEN DropFirst(t, 1) ELSE t

\* lines 21-26: text[8:] after "```latex", else text[3:] after "```"
StripPrefix(t) ==
    IF StartsWith(t, <<Fence, Tag>>) THEN DropFirst(t, 2)
    ELSE IF StartsWith(t, <<Fence>>) THEN DropFirst(t, 1)
    ELSE t

\* lines 27-29: text[:-3] before a closing "```"
StripSuffix(t) ==
    IF EndsWith(t, <<Fence>>) THEN DropLast(t, 1) ELSE t

\* _clean_latex_response(text)
CleanLatexResponse(t) == Strip(StripSuffix(StripPrefix(t)))

\* the sanitizer is applied to text
Clean ==
    /\ spc = "raw"
    /\ cleaned' = CleanLatexResponse(text)
    /\ spc' = "once"
    /\ UNCHANGED <<text, cleanedAgain>>
    /\ UNCHANGED <<loopVars, histVars, compVars, pdflatexInstalled>>

\* the sanitizer is applied to its own result
CleanAgain ==
    /\ spc = "once"
    /\ cleanedAgain' = CleanLatexResponse(cleaned)
    /\ spc' = "twice"
    /\ UNCHANGED <<text, cleaned>>
    /\ UNCHANGED <<loopVars, histVars, compVars, pdflatexInstalled>>

----------------------------------------------------------------------------
(* compile_latex_to_pdf *)

TimeoutRet == [pdf_bytes |-> FALSE, error |-> TimeoutMsg, page_count |-> 0, kind |-> "timeout"]
NotFoundRet == [pdf_bytes |-> FALSE, error |-> NotFoundMsg, page_count |-> 0, kind |-> "notfound"]
ExceptionRet(e) ==
    [pdf_bytes |-> FALSE, error |-> ExceptionMsg(e), page_count |-> 0, kind |-> "exception"]
SuccessRet(n) == [pdf_bytes |-> TRUE, error |-> NoError, page_count |-> n, kind |-> "success"]
FailureRet(log) ==
    [pdf_bytes |-> FALSE, error |-> ErrorMsgOf[log], page_count |-> 0, kind |-> "failure"]

\* what a pass of pdflatex that ends in time leaves behind:
\* its exit status, whether resume.pdf exists, and resume.log
PassResult(rc, pdf, log) == [returncode |-> rc, pdf |-> pdf, log |-> log]
PassResults ==
    {PassResult(0, TRUE, LogPages(n)) : n \in 1..MaxPages}
    \cup {PassResult(0, TRUE, LogNoOutputLine),
          PassResult(1, TRUE, LogPages(2)),
          PassResult(1, FALSE, LogFatal),
          PassResult(1, FALSE, LogFatalShort),
          PassResult(1, FALSE, LogNoMarker),
          PassResult(0, FALSE, LogNoMarker),
          PassResult(1, FALSE, NoLog)}

\* a pass loop that stops after a pass with a non-zero exit status
MorePassesIfClean(n) == n < LAST_PASS /\ returncode' = 0

\* the pass loop of line 67 goes on to another pass after pass n
MorePasses(n) == n < LAST_PASS


\* a cleanup written at the end of the try block instead of in a finally clause
RunsCleanupOnReturnOnly(kind) == kind \in {"success", "failure"}

\* the finally clause of line 137 is run on the exit path `kind` of the try block
RunsCleanup(kind) == TRUE

\* the state of compile_latex_to_pdf between two calls
CompIdle ==
    /\ cpc' = "idle"
    /\ run_num' = 1
    /\ tempDirExists' = tempDirExists
    /\ logFile' = NoLog
    /\ pdfExists' = FALSE
    /\ returncode' = 0
    /\ cpage' = 0
    /\ logParsed' = FALSE
    /\ passesRun' = 0
    /\ ret' = NoRet

\* a return statement of the try block or of an except clause, with the
\* finally clause of lines 137-142 (shutil.rmtree) run on the way out
Exit(r) ==
    /\ ret' = r
    /\ cpc' = "returned"
    /\ IF RunsCleanup(r.kind)
       THEN tempDirExists' = FALSE /\ logFile' = NoLog /\ pdfExists' = FALSE
       ELSE UNCHANGED <<tempDirExists, logFile, pdfExists>>
    /\ history' = Append(history, [kind |-> r.kind, failed |-> Truthy(r.error),
                                   page_count |-> r.page_count,
                                   doc |-> optimized_latex])

\* lines 67-95, 128-136: one pass of pdflatex
RunPass ==
    /\ cpc = "pass"
    /\ passesRun' = passesRun + 1
    /\ \/ /\ ~pdflatexInstalled
          /\ Exit(NotFoundRet)
          /\ UNCHANGED <<run_num, returncode>>
       \/ /\ pdflatexInstalled
          /\ \/ Exit(TimeoutRet) /\ UNCHANGED <<run_num, returncode>>
             \/ \E e \in PassErrors :
                   Exit(ExceptionRet(e)) /\ UNCHANGED <<run_num, returncode>>
             \/ \E res \in PassResults :
                   /\ returncode' = res.returncode
                   /\ pdfExists' = res.pdf
                   /\ logFile' = res.log
                   /\ IF MorePasses(run_num)
                      THEN run_num' = run_num + 1 /\ cpc' = "pass"
                      ELSE run_num' = run_num /\ cpc' = "check"
                   /\ UNCHANGED <<tempDirExists, ret, history>>
    /\ UNCHANGED <<cpage, logParsed>>
    /\ UNCHANGED <<loopVars, genCalls, fixCalls, shrinkCalls, compileAttempts>>
    /\ UNCHANGED <<pdflatexInstalled, sanVars>>

\* an outcome that also wants the last pass to have exited with status 0
OutputExistsAndCleanExit == pdfExists /\ returncode = 0

\* line 103: os.path.exists(pdf_path)
OutputExists == pdfExists

\* lines 97-126, 134-136: the page count from the log, then the outcome
CheckPdf ==
    /\ cpc = "check"
    /\ LET n == PageCountOf[logFile]
       IN  /\ cpage' = n
           /\ logParsed' = TRUE
           /\ \/ OutputExists /\ Exit(SuccessRet(n))
              \/ OutputExists /\ \E e \in ReadErrors : Exit(ExceptionRet(e))
              \/ ~OutputExists /\ Exit(FailureRet(logFile))
    /\ UNCHANGED <<run_num, returncode, passesRun>>
    /\ UNCHANGED <<loopVars, genCalls, fixCalls, shrinkCalls, compileAttempts>>
    /\ UNCHANGED <<pdflatexInstalled, sanVars>>

----------------------------------------------------------------------------
(* optimize_resume *)

\* the turns of the transcript
UserPromptTurn ==
    [role |-> "user", kind |-> "optimize", doc |-> Original, error |-> NoError, pages |-> 0]
AssistantTurn(d) ==
    [role |-> "assistant", kind |-> "candidate", doc |-> d, error |-> NoError, pages |-> 0]
\* a fix prompt that embeds the first line of the error only
FixTurnFirstLine(err) ==
    [role |-> "user", kind |-> "fix", doc |-> Original, error |-> SubSeq(err, 1, 1),
     pages |-> 0]

\* fix_prompt of _ask_claude_to_fix: embeds compile_error
FixTurn(err) ==
    [role |-> "user", kind |-> "fix", doc |-> Original, error |-> err, pages |-> 0]
\* shrink_prompt of _ask_claude_to_shrink: embeds page_count
ShrinkTurn(n) ==
    [role |-> "user", kind |-> "shrink", doc |-> Original, error |-> NoError, pages |-> n]

\* a helper that returns the reply without appending it to the transcript
WithReplyDropped(conv, d) == conv

\* lines 98 and 135: conversation.append({"role": "assistant", ...})
WithReply(conv, d) == Append(conv, AssistantTurn(d))

\* _try_compile: (error | None, page_count)
TryCompile(r) ==
    IF Truthy(r.error) THEN <<r.error, 0>> ELSE <<NoError, r.page_count>>


\* an off-by-one in the range of the fix loop
FixLoopOneMore(a) == a <= MAX_FIX_ATTEMPTS + 1

\* line 190: attempt in range(1, MAX_FIX_ATTEMPTS + 1)
FixLoopContinues(a) == a <= MAX_FIX_ATTEMPTS

\* a fix loop without its else clause: the last fix's candidate is not compiled
FixLoopElseNoCompile == "PageChecking"

\* lines 203-207: the loop's else clause compiles the last fix's candidate
FixLoopElse == "FinalCompile"

\* a fix loop that gives up on a timeout instead of asking for a fix
FixLoopBreaksOnTimeout(err) == err = NoError \/ err = TimeoutMsg

\* line 192: compile_error is None
FixLoopBreaks(err) == err = NoError

\* page-count tests that take 0 pages, or exactly one page, for too many
ShrinkNeededUnlessOne(n) == n # 1
ShrinkNeededFromOne(n) == n >= 1

\* line 210: page_count > 1
ShrinkNeeded(n) == n > 1

\* an off-by-one in the range of the shrink loop
ShrinkLoopOneMore(k) == k <= MAX_PAGE_SHRINK_ATTEMPTS + 1

\* line 215: shrink in range(1, MAX_PAGE_SHRINK_ATTEMPTS + 1)
ShrinkLoopContinues(k) == k <= MAX_PAGE_SHRINK_ATTEMPTS

\* an early exit that takes 0 pages (a failed or unread compile) for too many
ShrinkLoopBreaksOnOneOnly(n) == n = 1

\* a shrink loop without its early exit
ShrinkLoopBreaksNever(n) == FALSE

\* line 231: page_count <= 1
ShrinkLoopBreaks(n) == n <= 1


\* a success return that hard-fails on the page count
SuccessResultHardFail ==
    [success |-> page_count <= 1, optimized_latex |-> optimized_latex,
     summary |-> <<"Resume optimized successfully for the target position.">>,
     returned |-> TRUE]
\* a success return that reverts to the input when the last compile failed
SuccessResultRevert ==
    [success |-> TRUE,
     optimized_latex |-> IF page_count = 0 THEN Original ELSE optimized_latex,
     summary |-> <<"Resume optimized successfully for the target position.">>,
     returned |-> TRUE]

\* a success return that prefers the latest candidate that compiled
SuccessResultLastCompiled ==
    LET good == {i \in 1..Len(history) : ~history[i].failed}
    IN  [success |-> TRUE,
         optimized_latex |-> IF good = {} THEN optimized_latex
                             ELSE history[CHOOSE i \in good : \A j \in good : j <= i].doc,
         summary |-> <<"Resume optimized successfully for the target position.">>,
         returned |-> TRUE]

\* lines 243-247
SuccessResult ==
    [success |-> TRUE, optimized_latex |-> optimized_latex,
     summary |-> <<"Resume optimized successfully for the target position.">>,
     returned |-> TRUE]

\* a fallback that returns the working copy instead of the input
FallbackResultCandidate(e) ==
    [success |-> FALSE, optimized_latex |-> optimized_latex,
     summary |-> <<"Optimization failed: ", e>>,
     returned |-> TRUE]

\* lines 253-257
FallbackResult(e) ==
    [success |-> FALSE, optimized_latex |-> Original,
     summary |-> <<"Optimization failed: ", e>>,
     returned |-> TRUE]

\* lines 249-257: the except clause catches e
Fallback(src, e) ==
    /\ raised' = [src |-> src, msg |-> e]
    /\ result' = FallbackResult(e)
    /\ pc' = "Done"

\* where the loop calls _try_compile
CompileSites == {"CompileChecking", "FinalCompile", "ShrinkCompile", "ShrinkRecompile"}

\* lines 153-189: the draft call and the transcript
Draft ==
    /\ pc = "Drafting"
    /\ genCalls' = genCalls + 1
    /\ sent' = <<UserPromptTurn>>
    /\ \/ /\ optimized_latex' = genCalls'
          /\ conversation' = <<UserPromptTurn, AssistantTurn(genCalls')>>
          /\ page_count' = 0
          /\ attempt' = 1
          /\ pc' = IF FixLoopContinues(1) THEN "CompileChecking" ELSE FixLoopElse
          /\ UNCHANGED <<result, raised>>
       \/ \E e \in GenErrors :
             /\ Fallback("generation", e)
             /\ UNCHANGED <<optimized_latex, conversation, page_count, attempt>>
    /\ UNCHANGED <<shrink, compile_error>>
    /\ UNCHANGED <<fixCalls, shrinkCalls, compileAttempts, history>>
    /\ UNCHANGED compVars
    /\ UNCHANGED <<pdflatexInstalled, sanVars>>

\* line 58 and lines 55-66: _try_compile calls compile_latex_to_pdf, which
\* makes temp_dir (outside the try block) and writes resume.tex into it
CallCompile ==
    /\ pc \in CompileSites
    /\ cpc = "idle"
    /\ compileAttempts' = compileAttempts + 1
    /\ \/ /\ cpc' = "pass"
          /\ tempDirExists' = TRUE
          /\ UNCHANGED <<run_num, logFile, pdfExists, returncode, cpage, logParsed,
                         passesRun, ret, history>>
          /\ UNCHANGED loopVars
       \/ \E e \in WriteErrors :
             /\ Exit(ExceptionRet(e))
             /\ UNCHANGED <<run_num, returncode, cpage, logParsed, passesRun>>
             /\ UNCHANGED loopVars
       \/ \E e \in MkdtempErrors :
             /\ Fallback("compile", e)
             /\ UNCHANGED compVars
             /\ UNCHANGED history
             /\ UNCHANGED <<optimized_latex, conversation, sent, attempt, shrink,
                            compile_error, page_count>>
    /\ UNCHANGED <<genCalls, fixCalls, shrinkCalls>>
    /\ UNCHANGED <<pdflatexInstalled, sanVars>>

\* lines 191-193: the fix loop's compile check
FixLoopCompiled ==
    /\ pc = "CompileChecking"
    /\ cpc = "returned"
    /\ compile_error' = TryCompile(ret)[1]
    /\ page_count' = TryCompile(ret)[2]
    /\ pc' = IF FixLoopBreaks(compile_error') THEN "PageChecking" ELSE "Fixing"
    /\ CompIdle
    /\ UNCHANGED <<optimized_latex, conversation, sent, attempt, shrink, result, raised>>
    /\ UNCHANGED histVars
    /\ UNCHANGED <<pdflatexInstalled, sanVars>>

\* _ask_claude_to_fix(optimized_latex, compile_error, conversation), lines 66-99
AskClaudeToFix(nextPc) ==
    /\ genCalls' = genCalls + 1
    /\ fixCalls' = fixCalls + 1
    /\ sent' = Append(conversation, FixTurn(compile_error))
    /\ \/ /\ conversation' = WithReply(sent', genCalls')
          /\ optimized_latex' = genCalls'
          /\ pc' = nextPc
          /\ UNCHANGED <<result, raised>>
       \/ \E e \in GenErrors :
             /\ conversation' = sent'
             /\ Fallback("generation", e)
             /\ UNCHANGED optimized_latex
    /\ UNCHANGED <<shrink, compile_error, page_count>>
    /\ UNCHANGED <<shrinkCalls, compileAttempts, history>>
    /\ UNCHANGED compVars
    /\ UNCHANGED <<pdflatexInstalled, sanVars>>

\* lines 195-202: a fix attempt of the fix loop, then the loop's next iteration
AskFix ==
    /\ pc = "Fixing"
    /\ attempt' = attempt + 1
    /\ AskClaudeToFix(IF FixLoopContinues(attempt + 1)
                      THEN "CompileChecking" ELSE FixLoopElse)

\* lines 203-207: the else clause of the fix loop
FinalCompiled ==
    /\ pc = "FinalCompile"
    /\ cpc = "returned"
    /\ page_count' = TryCompile(ret)[2]
    /\ pc' = "PageChecking"
    /\ CompIdle
    /\ UNCHANGED <<optimized_latex, conversation, sent, attempt, shrink, compile_error,
                   result, raised>>
    /\ UNCHANGED histVars
    /\ UNCHANGED <<pdflatexInstalled, sanVars>>

\* lines 210-215: the page-count check
PageCheck ==
    /\ pc = "PageChecking"
    /\ IF ShrinkNeeded(page_count)
       THEN /\ shrink' = 1
            /\ pc' = IF ShrinkLoopContinues(1) THEN "Shrinking" ELSE "Returning"
       ELSE /\ shrink' = shrink
            /\ pc' = "Returning"
    /\ UNCHANGED <<optimized_latex, conversation, sent, attempt, compile_error,
                   page_count, result, raised>>
    /\ UNCHANGED histVars
    /\ UNCHANGED compVars
    /\ UNCHANGED <<pdflatexInstalled, sanVars>>

\* lines 216-221 and _ask_claude_to_shrink, lines 102-136
AskShrink ==
    /\ pc = "Shrinking"
    /\ genCalls' = genCalls + 1
    /\ shrinkCalls' = shrinkCalls + 1
    /\ sent' = Append(conversation, ShrinkTurn(page_count))
    /\ \/ /\ conversation' = WithReply(sent', genCalls')
          /\ optimized_latex' = genCalls'
          /\ pc' = "ShrinkCompile"
          /\ UNCHANGED <<result, raised>>
       \/ \E e \in GenErrors :
             /\ conversation' = sent'
             /\ Fallback("generation", e)
             /\ UNCHANGED optimized_latex
    /\ UNCHANGED <<attempt, shrink, compile_error, page_count>>
    /\ UNCHANGED <<fixCalls, compileAttempts, history>>
    /\ UNCHANGED compVars
    /\ UNCHANGED <<pdflatexInstalled, sanVars>>

\* a shrink attempt that asks for a fix again while no page count is known
EndShrinkAttemptRefix(n) ==
    IF n = 0
    THEN pc' = "ShrinkFix" /\ shrink' = shrink
    ELSE IF ShrinkLoopBreaks(n)
    THEN pc' = "Returning" /\ shrink' = shrink
    ELSE /\ shrink' = shrink + 1
         /\ pc' = IF ShrinkLoopContinues(shrink + 1) THEN "Shrinking" ELSE "Returning"

\* lines 231-236: the end of a shrink attempt with page count n
EndShrinkAttempt(n) ==
    IF ShrinkLoopBreaks(n)
    THEN pc' = "Returning" /\ shrink' = shrink
    ELSE /\ shrink' = shrink + 1
         /\ pc' = IF ShrinkLoopContinues(shrink + 1) THEN "Shrinking" ELSE "Returning"

\* lines 223-225, 231-233: the shrunk candidate's compile check
ShrinkCompiled ==
    /\ pc = "ShrinkCompile"
    /\ cpc = "returned"
    /\ compile_error' = TryCompile(ret)[1]
    /\ page_count' = TryCompile(ret)[2]
    /\ IF Truthy(compile_error')
       THEN pc' = "ShrinkFix" /\ shrink' = shrink
       ELSE EndShrinkAttempt(page_count')
    /\ CompIdle
    /\ UNCHANGED <<optimized_latex, conversation, sent, attempt, result, raised>>
    /\ UNCHANGED histVars
    /\ UNCHANGED <<pdflatexInstalled, sanVars>>

\* lines 226-228: the nested fix call
AskNestedFix ==
    /\ pc = "ShrinkFix"
    /\ attempt' = attempt
    /\ AskClaudeToFix("ShrinkRecompile")

\* lines 229-233: the nested fix's compile check
NestedCompiled ==
    /\ pc = "ShrinkRecompile"
    /\ cpc = "returned"
    /\ page_count' = TryCompile(ret)[2]
    /\ EndShrinkAttempt(page_count')
    /\ CompIdle
    /\ UNCHANGED <<optimized_latex, conversation, sent, attempt, compile_error,
                   result, raised>>
    /\ UNCHANGED histVars
    /\ UNCHANGED <<pdflatexInstalled, sanVars>>

\* lines 238-247: the success return
Return ==
    /\ pc = "Returning"
    /\ result' = SuccessResult
    /\ pc' = "Done"
    /\ UNCHANGED <<optimized_latex, conversation, sent, attempt, shrink, compile_error,
                   page_count, raised>>
    /\ UNCHANGED histVars
    /\ UNCHANGED compVars
    /\ UNCHANGED <<pdflatexInstalled, sanVars>>

----------------------------------------------------------------------------

LoopInit ==
    /\ pc = "Drafting"
    /\ optimized_latex = Original
    /\ conversation = << >>
    /\ sent = << >>
    /\ attempt = 0
    /\ shrink = 0
    /\ compile_error = NoError
    /\ page_count = 0
    /\ result = NoResult
    /\ raised = NoExc
    /\ genCalls = 0
    /\ fixCalls = 0
    /\ shrinkCalls = 0
    /\ compileAttempts = 0
    /\ history = << >>
    /\ cpc = "idle"
    /\ run_num = 1
    /\ tempDirExists = FALSE
    /\ logFile = NoLog
    /\ pdfExists = FALSE
    /\ returncode = 0
    /\ cpage = 0
    /\ logParsed = FALSE
    /\ passesRun = 0
    /\ ret = NoRet

\* optimize_resume is called; the sanitizer is looked at in SanSpec only
Init ==
    /\ LoopInit
    /\ pdflatexInstalled \in BOOLEAN
    /\ text = << >>
    /\ cleaned = << >>
    /\ cleanedAgain = << >>
    /\ spc = "off"

Next ==
    \/ Draft
    \/ CallCompile
    \/ RunPass
    \/ CheckPdf
    \/ FixLoopCompiled
    \/ AskFix
    \/ FinalCompiled
    \/ PageCheck
    \/ AskShrink
    \/ ShrinkCompiled
    \/ AskNestedFix
    \/ NestedCompiled
    \/ Return

Spec == Init /\ [][Next]_vars

\* every call returns or raises (a pass within its 60 s timeout), and the
\* interpreter then runs the next statement
FairSpec == Spec /\ WF_vars(Next)

\* _clean_latex_response is given any text of up to MaxTextLen tokens
SanInit ==
    /\ LoopInit
    /\ pdflatexInstalled = TRUE
    /\ text \in Texts
    /\ cleaned = << >>
    /\ cleanedAgain = << >>
    /\ spc = "raw"

SanNext ==
    \/ Clean
    \/ CleanAgain

SanSpec == SanInit /\ [][SanNext]_vars

----------------------------------------------------------------------------
(* Properties *)

Done == pc = "Done"
\* the run ended in the except clause
Raised == raised # NoExc
GenerationRaised == raised.src = "generation"

\* the compile attempts that have returned so far
Attempts == 1..Len(history)
AllFailed == \A i \in Attempts : history[i].failed
AllThreePages ==
    \A i \in Attempts : ~history[i].failed /\ history[i].page_count = 3

\* the candidate the latest call of the given kind ("fix", "shrink") returned:
\* the assistant turn that follows the last user turn of that kind
LastReplyTo(kind) ==
    LET asked == {i \in 1..(Len(conversation) - 1) : conversation[i].kind = kind}
        last == CHOOSE i \in asked : \A j \in asked : j <= i
    IN  conversation[last + 1].doc
RepliedTo(kind) ==
    \E i \in 1..(Len(conversation) - 1) : conversation[i].kind = kind

\* C1: when a generation call raises (the draft call, a fix call, a shrink
\* call or a nested fix call), optimize_resume returns instead of raising:
\* success is false, the document is the caller's input and no candidate of
\* the run, and the summary embeds the exception's message.
C1_FallbackOnGenerationError ==
    GenerationRaised =>
        /\ Done
        /\ result.returned
        /\ result.success = FALSE
        /\ result.optimized_latex = Original
        /\ result.optimized_latex \notin 1..genCalls
        /\ result.summary = <<"Optimization failed: ", raised.msg>>

\* a nested fix call raised, with candidates of three kinds already generated
C1_Witness ==
    /\ Done
    /\ GenerationRaised
    /\ shrinkCalls > 0
    /\ fixCalls > 0
    /\ optimized_latex # Original
    /\ conversation[Len(conversation)].kind = "fix"

\* C2: success is false only when an exception was raised inside the loop.
\* A run in which nothing raises returns success = true with the current
\* candidate, never the input, whatever the compile attempts returned:
\* failures of any kind and page counts above 1 included.
C2_FailureOnlyOnException ==
    Done =>
        /\ result.returned
        /\ (result.success = FALSE) <=> Raised
        /\ ~Raised =>
              /\ result.success
              /\ result.optimized_latex = optimized_latex
              /\ result.optimized_latex \in 1..genCalls
              /\ result.optimized_latex # Original

\* a run that returned success although its last compile attempt failed
\* and an earlier one had more than one page
C2_Witness ==
    /\ Done
    /\ ~Raised
    /\ result.success
    /\ history # << >>
    /\ history[Len(history)].failed
    /\ \E i \in Attempts : history[i].page_count > 1

\* C3: every run terminates, whatever the generation service and the compiler
\* return or raise, after at most 7 generation calls (1 draft, 2 fixes, 2
\* shrinks each with one nested fix) and at most 7 compile attempts of at
\* most 2 passes each (14 compiler passes).
C3_BoundedTermination ==
    /\ <>Done
    /\ [](/\ genCalls <= 7
          /\ genCalls <= 1 + fixCalls + shrinkCalls
          /\ fixCalls <= 4
          /\ shrinkCalls <= 2
          /\ compileAttempts <= 7
          /\ passesRun <= 2)

\* the worst case: the seventh generation call's candidate, compiled in the
\* second pass of the seventh compile attempt
C3_Witness ==
    /\ genCalls = 7
    /\ compileAttempts = 7
    /\ passesRun = 2
    /\ cpc = "check"

\* C4: when every compile attempt fails, the run makes the draft call and
\* at most MAX_FIX_ATTEMPTS fix calls, makes no shrink call, and returns.
C4_AlwaysFailingCompiler ==
    (pc # "Drafting" /\ AllFailed) =>
        /\ fixCalls <= MAX_FIX_ATTEMPTS
        /\ shrinkCalls = 0
        /\ genCalls = 1 + fixCalls
        /\ compileAttempts <= 1 + MAX_FIX_ATTEMPTS
        /\ Done => result.returned
        /\ (Done /\ ~Raised) => fixCalls = MAX_FIX_ATTEMPTS /\ result.success

\* three failed compile attempts, two fix calls, then the return
C4_Witness ==
    /\ Done
    /\ ~Raised
    /\ AllFailed
    /\ Len(history) = 1 + MAX_FIX_ATTEMPTS
    /\ fixCalls = MAX_FIX_ATTEMPTS

\* C5: no run makes more than MAX_PAGE_SHRINK_ATTEMPTS shrink calls.  When
\* every compile attempt succeeds with 3 pages (and no call raises), the run
\* makes exactly 2 shrink calls and no fix call, and returns success = true
\* with the candidate the last shrink call produced.
C5_ShrinkBound ==
    /\ shrinkCalls <= MAX_PAGE_SHRINK_ATTEMPTS
    /\ (pc # "Drafting" /\ AllThreePages) => fixCalls = 0
    /\ (Done /\ ~Raised /\ AllThreePages) =>
          /\ shrinkCalls = 2
          /\ fixCalls = 0
          /\ genCalls = 3
          /\ result.success
          /\ RepliedTo("shrink")
          /\ result.optimized_latex = LastReplyTo("shrink")
          /\ result.optimized_latex = genCalls

\* the run of a compiler that reports 3 pages three times
C5_Witness ==
    /\ Done
    /\ ~Raised
    /\ AllThreePages
    /\ Len(history) = 3
    /\ page_count = 3

\* the first compile attempt succeeded with at most one page
FirstCompileFits ==
    /\ Len(history) >= 1
    /\ ~history[1].failed
    /\ history[1].page_count <= 1

\* C6: if the first compile attempt succeeds with page_count <= 1, the run
\* makes exactly one generation call and one compile attempt and returns
\* success = true with the draft candidate.
C6_HappyPath ==
    FirstCompileFits =>
        /\ genCalls = 1
        /\ compileAttempts = 1
        /\ fixCalls = 0
        /\ shrinkCalls = 0
        /\ ~Raised
        /\ optimized_latex = 1
        /\ Done => (result.success /\ result.optimized_latex = 1)

\* the draft compiled to exactly one page and the run returned
C6_Witness ==
    /\ Done
    /\ FirstCompileFits
    /\ history[1].page_count = 1
    /\ result.success

\* the fix loop used all its fix calls and the last candidate failed too
FixBudgetExhausted ==
    /\ Len(history) >= MAX_FIX_ATTEMPTS + 1
    /\ \A i \in 1..(MAX_FIX_ATTEMPTS + 1) : history[i].failed

\* C7: when the compile phase has used all MAX_FIX_ATTEMPTS fix calls and
\* the last fix call's candidate still fails to compile, the run does not
\* revert to the input: it returns that candidate, does not fail the request
\* and makes no shrink call.
C7_BestEffortAfterFixes ==
    FixBudgetExhausted =>
        /\ Len(history) = MAX_FIX_ATTEMPTS + 1
        /\ fixCalls = MAX_FIX_ATTEMPTS
        /\ shrinkCalls = 0
        /\ ~Raised
        /\ RepliedTo("fix")
        /\ optimized_latex = LastReplyTo("fix")
        /\ history[MAX_FIX_ATTEMPTS + 1].doc = LastReplyTo("fix")
        /\ Done =>
              /\ result.success
              /\ result.optimized_latex = LastReplyTo("fix")
              /\ result.optimized_latex # Original

\* the run returned the candidate of the second fix call, which did not compile
C7_Witness ==
    /\ Done
    /\ FixBudgetExhausted
    /\ result.success
    /\ result.optimized_latex = 3
    /\ history[3].kind = "failure"

C9_TimeoutIsACompileFailure ==
    /\ [](ret.kind = "timeout" =>
            /\ cpc = "returned"
            /\ ret.error = TimeoutMsg
            /\ ret.page_count = 0
            /\ ret.pdf_bytes = FALSE
            /\ ~logParsed
            /\ passesRun = run_num)
    /\ [][(cpc = "returned" /\ ret.kind \in {"timeout", "failure"}) =>
            /\ page_count' = 0
            /\ pc = "CompileChecking" => (pc' = "Fixing" /\ compile_error' = ret.error)
            /\ pc = "ShrinkCompile" => (pc' = "ShrinkFix" /\ compile_error' = ret.error)
            /\ pc = "FinalCompile" => pc' = "PageChecking"
            /\ pc = "ShrinkRecompile" => pc' = "Returning"]_vars

\* the fix loop is about to ask for a fix of a compile attempt that timed out
C9_Witness ==
    /\ pc = "Fixing"
    /\ compile_error = TimeoutMsg
    /\ history[Len(history)].kind = "timeout"
    /\ attempt <= MAX_FIX_ATTEMPTS

\* C10: when the compiler binary is not found the compile attempt surfaces
\* as a failure outcome (page_count 0, no exception) and is not retried:
\* the loop makes no fix call and no further compile attempt for it.
C10_CompilerMissingNotRetried ==
    /\ ret.kind = "notfound" =>
          (cpc = "returned" /\ ret.error = NotFoundMsg /\ ret.page_count = 0)
    /\ \A i \in 1..Len(conversation) :
          conversation[i].kind = "fix" => conversation[i].error # NotFoundMsg
    /\ \A i \in Attempts : history[i].kind = "notfound" => compileAttempts = i

\* the logs that hold an "Output written on ... (n pages" line
LogsWithPageCount == {LogPages(n) : n \in 1..MaxPages}

\* C11 as stated: for every outcome compile_latex_to_pdf returns, page_count
\* is a non-negative integer and is 0 if and only if the outcome is a failure.
C11_PageCountZeroIffFailure ==
    cpc = "returned" =>
        /\ ret.page_count \in Nat
        /\ (ret.page_count = 0) <=> Truthy(ret.error)

\* C11, amended: for every outcome compile_latex_to_pdf returns, page_count
\* is a non-negative integer and is 0 when the outcome is a failure; a success
\* carries the count of the log's "Output written" line, and carries 0 too
\* when the log has no such line.
C11_PageCountOfOutcome ==
    /\ [](cpc = "returned" =>
            /\ ret.page_count \in Nat
            /\ Truthy(ret.error) => ret.page_count = 0)
    /\ [][(cpc = "check" /\ ret'.kind = "success") =>
            /\ \A n \in 1..MaxPages : logFile = LogPages(n) => ret'.page_count = n
            /\ logFile \notin LogsWithPageCount => ret'.page_count = 0]_vars

\* a successful outcome whose page count is 0: resume.pdf exists and the log
\* has no page-count line
C11_Witness ==
    /\ cpc = "returned"
    /\ ret.kind = "success"
    /\ ret.pdf_bytes
    /\ ret.error = NoError
    /\ ret.page_count = 0

\* C12: _clean_latex_response is idempotent: applied to its own result it
\* returns that result, for every text, texts with whitespace around the
\* fence markers and texts that begin with more than one fence marker included.
C12_SanitizerIdempotent ==
    spc = "twice" => cleanedAgain = cleaned

\* text is <leading fence> X <trailing fence> with the tagged fence, or with
\* the bare fence (a fence that the tag follows is the tagged one)
TaggedForm == Len(text) >= 3 /\ StartsWith(text, <<Fence, Tag>>) /\ EndsWith(text, <<Fence>>)
BareForm ==
    Len(text) >= 2 /\ StartsWith(text, <<Fence>>) /\ EndsWith(text, <<Fence>>)
    /\ ~StartsWith(text, <<Fence, Tag>>)
NoFence == \A i \in 1..Len(text) : text[i] # Fence
\* s without its leading and trailing whitespace
Trimmed(s, t) ==
    /\ \E i \in 0..Len(s) : \E j \in 0..(Len(s) - i) :
          /\ t = SubSeq(s, i + 1, Len(s) - j)
          /\ \A k \in 1..i : s[k] = Space
          /\ \A k \in (Len(s) - j + 1)..Len(s) : s[k] = Space
    /\ t # << >> => (t[1] # Space /\ t[Len(t)] # Space)

\* C13: for a text <leading fence> X <trailing fence>, the leading fence bare
\* or tagged with the language tag, the sanitizer returns X trimmed and
\* nothing of the fence or the tag; for a text without a fence marker it
\* returns the text trimmed.
C13_FenceStripping ==
    spc \in {"once", "twice"} =>
        /\ TaggedForm => Trimmed(SubSeq(text, 3, Len(text) - 1), cleaned)
        /\ BareForm => Trimmed(SubSeq(text, 2, Len(text) - 1), cleaned)
        /\ NoFence => Trimmed(text, cleaned)

\* the reply "<fence>latex X <fence>" with whitespace around X was cleaned to X
C13_Witness ==
    /\ spc = "once"
    /\ text = <<Fence, Tag, Space, Other, Space, Fence>>
    /\ cleaned = <<Other>>

IsPrefix(s, t) == Len(s) <= Len(t) /\ SubSeq(t, 1, Len(s)) = s
LastTurn == conversation[Len(conversation)]

\* C14: the transcript only grows (a step leaves the turns it has as they
\* are and appends), its turns alternate user, assistant, user, ... from the
\* initial user turn on, and its last turn is the most recent candidate
\* (assistant) or the correction request (user) of the call being made: the
\* last turn of the messages that call was given.
C14_Transcript ==
    /\ [][IsPrefix(conversation, conversation')]_vars
    /\ [](conversation # << >> =>
            /\ conversation[1] = UserPromptTurn
            /\ \A i \in 1..Len(conversation) :
                  conversation[i].role = IF i % 2 = 1 THEN "user" ELSE "assistant"
            /\ \/ /\ LastTurn.role = "assistant"
                  /\ LastTurn.kind = "candidate"
                  /\ LastTurn.doc = optimized_latex
                  /\ LastTurn.doc = genCalls
               \/ /\ LastTurn.role = "user"
                  /\ LastTurn.kind \in {"fix", "shrink"}
                  /\ sent = conversation
                  /\ GenerationRaised)

\* thirteen turns: six candidates, and the nested fix request of the second
\* shrink attempt, whose call raised
C14_Witness ==
    /\ Len(conversation) = 13
    /\ LastTurn.kind = "fix"
    /\ conversation[Len(conversation) - 1].doc = 6
    /\ {conversation[i].kind : i \in 1..Len(conversation)} =
          {"optimize", "candidate", "fix", "shrink"}

LastAttempt == history[Len(history)]
ShrinkRequests == {i \in 1..Len(conversation) : conversation[i].kind = "shrink"}

\* C15: a shrink call is made only directly after a compile attempt that
\* succeeded with page_count > 1: the latest attempt, of the candidate the
\* request follows, and the request states that attempt's page count.  When
\* the fix loop's last compile attempt failed, or succeeded with a page count
\* of 0 or 1, the loop goes to its return and the run has no shrink call.
C15_ShrinkOnlyAfterLongCompile ==
    /\ [][shrinkCalls' # shrinkCalls =>
            /\ history # << >>
            /\ Len(history) = compileAttempts
            /\ LastAttempt.doc = genCalls
            /\ ~LastAttempt.failed
            /\ LastAttempt.page_count > 1
            /\ sent' = Append(conversation, ShrinkTurn(LastAttempt.page_count))]_vars
    /\ [][(pc = "PageChecking" /\ (LastAttempt.failed \/ LastAttempt.page_count <= 1)) =>
            /\ pc' = "Returning"
            /\ shrinkCalls = 0
            /\ shrinkCalls' = 0]_vars
    /\ [][(pc \in {"Returning", "Done"}) =>
            /\ pc' \in {"Returning", "Done"}
            /\ shrinkCalls' = shrinkCalls]_vars
    /\ [](\A i \in ShrinkRequests :
            LET d == conversation[i - 1].doc
            IN  /\ d <= Len(history)
                /\ history[d].doc = d
                /\ ~history[d].failed
                /\ history[d].page_count > 1
                /\ conversation[i].pages = history[d].page_count)

\* the second shrink call, made after the nested fix's candidate compiled to
\* 2 pages where the first shrunk candidate had not compiled
C15_Witness ==
    /\ shrinkCalls = 2
    /\ pc = "ShrinkCompile"
    /\ sent[Len(sent)] = ShrinkTurn(2)
    /\ sent[Len(sent) - 2].kind = "fix"
    /\ LastAttempt.page_count = 2
    /\ history[Len(history) - 1].failed

\* C16: in a shrink attempt whose shrunk candidate fails to compile, one fix
\* call and one compile attempt of its candidate are made, and the page count
\* of that attempt, 0 if it failed too, ends the shrink attempt; when the
\* shrunk candidate compiles no fix call is made.  In the transcript a shrink
\* request's candidate is followed by a fix request exactly when that
\* candidate failed to compile, and a nested fix's candidate by nothing but
\* the next shrink request.
C16_OneNestedFix ==
    /\ [][(pc = "ShrinkCompile" /\ cpc = "returned") =>
            /\ fixCalls' = fixCalls
            /\ Truthy(ret.error) => (pc' = "ShrinkFix" /\ shrink' = shrink)
            /\ ~Truthy(ret.error) => pc' \in {"Shrinking", "Returning"}]_vars
    /\ [][(pc = "ShrinkFix") =>
            /\ fixCalls' = fixCalls + 1
            /\ compileAttempts' = compileAttempts
            /\ pc' \in {"ShrinkRecompile", "Done"}]_vars
    /\ [][(pc = "ShrinkRecompile") =>
            /\ fixCalls' = fixCalls
            /\ genCalls' = genCalls
            /\ compileAttempts' \in {compileAttempts, genCalls}
            /\ pc' \in {"ShrinkRecompile", "Shrinking", "Returning", "Done"}
            /\ pc' \in {"Shrinking", "Returning"} =>
                  (cpc = "returned" /\ page_count' = LastAttempt.page_count
                   /\ LastAttempt.doc = genCalls)]_vars
    /\ [](\A i \in ShrinkRequests : i + 1 <= Len(conversation) =>
            LET d == conversation[i + 1].doc
                compiled == d <= Len(history)
                fixAsked == i + 2 <= Len(conversation) /\ conversation[i + 2].kind = "fix"
            IN  /\ fixAsked => (compiled /\ history[d].failed)
                /\ (compiled /\ history[d].failed) =>
                      (fixAsked \/ pc \in {"ShrinkCompile", "ShrinkFix"})
                /\ i + 2 <= Len(conversation) =>
                      conversation[i + 2].kind \in {"fix", "shrink"}
                /\ (fixAsked /\ i + 4 <= Len(conversation)) =>
                      conversation[i + 4].kind = "shrink")

\* both shrunk candidates failed to compile: two shrink attempts, a nested
\* fix call in each, and the second nested candidate failed as well
C16_Witness ==
    /\ pc = "Returning"
    /\ shrinkCalls = 2
    /\ Len(conversation) >= 8
    /\ conversation[Len(conversation) - 7].kind = "shrink"
    /\ conversation[Len(conversation) - 5].kind = "fix"
    /\ conversation[Len(conversation) - 3].kind = "shrink"
    /\ conversation[Len(conversation) - 1].kind = "fix"
    /\ LastAttempt.failed

\* the candidates generated so far
Candidates == {i \in 1..Len(conversation) : conversation[i].kind = "candidate"}

\* C17: the loop generates, compiles, decides, one after the other: the i-th
\* compile attempt compiles the i-th candidate, so every candidate is
\* compiled exactly once; a generation call is made only when every candidate
\* so far has been compiled and that compile attempt has returned; a compile
\* attempt takes the latest candidate; a run returns only with every
\* candidate compiled, and with success = true only when compile attempts
\* and generation calls are equal in number.
C17_GenerateCompileDecide ==
    /\ [](/\ \A i \in Attempts : history[i].doc = i
          /\ Len(history) <= compileAttempts
          /\ compileAttempts <= Cardinality(Candidates)
          /\ Cardinality(Candidates) <= compileAttempts + 1)
    /\ [][genCalls' # genCalls =>
            /\ cpc = "idle"
            /\ compileAttempts = genCalls
            /\ Len(history) = genCalls
            /\ Cardinality(Candidates) = genCalls]_vars
    /\ [][compileAttempts' # compileAttempts =>
            /\ compileAttempts' = genCalls
            /\ optimized_latex = genCalls
            /\ LastTurn = AssistantTurn(genCalls)]_vars
    /\ [](Done => compileAttempts = Cardinality(Candidates))
    /\ [](Done /\ result.success =>
            /\ compileAttempts = genCalls
            /\ Len(history) = genCalls
            /\ genCalls >= 1)

\* the longest run: seven candidates, seven compile attempts, success
C17_Witness ==
    /\ Done
    /\ result.success
    /\ genCalls = 7
    /\ compileAttempts = 7
    /\ Len(history) = 7

FixSites == {"Fixing", "ShrinkFix"}

\* C18: a fix call is made with the error of the compile attempt that has
\* just failed: the loop takes compile_error from the attempt that returned,
\* goes straight to the fix call, and the call appends one user turn that
\* holds this error whole, sends the transcript with that turn as its last,
\* appends the reply as the assistant turn and makes it the candidate, which
\* is the next thing compiled.  The draft call is sent the initial user turn
\* and nothing else.
C18_FixStepOrder ==
    /\ [][(cpc = "returned" /\ pc \in {"CompileChecking", "ShrinkCompile"}
           /\ Truthy(ret.error)) =>
            /\ compile_error' = ret.error
            /\ pc' \in FixSites]_vars
    /\ [](pc \in FixSites =>
            /\ cpc = "idle"
            /\ LastAttempt.failed
            /\ LastAttempt.doc = genCalls
            /\ Truthy(compile_error)
            /\ (LastAttempt.kind = "timeout") <=> (compile_error = TimeoutMsg)
            /\ (LastAttempt.kind = "notfound") <=> (compile_error = NotFoundMsg))
    /\ [][(pc \in FixSites) =>
            /\ fixCalls' = fixCalls + 1
            /\ genCalls' = genCalls + 1
            /\ Len(sent') = Len(conversation) + 1
            /\ IsPrefix(conversation, sent')
            /\ sent'[Len(sent')].role = "user"
            /\ sent'[Len(sent')].kind = "fix"
            /\ sent'[Len(sent')].error = compile_error
            /\ IsPrefix(sent', conversation')
            /\ pc' # "Done" =>
                  /\ conversation' = Append(sent', AssistantTurn(genCalls'))
                  /\ optimized_latex' = genCalls'
                  /\ pc' \in CompileSites
                  /\ compileAttempts' = compileAttempts]_vars
    /\ [][fixCalls' # fixCalls => pc \in FixSites]_vars
    /\ [][(pc = "Drafting") => sent' = <<UserPromptTurn>>]_vars

\* a nested fix call was sent the five-line excerpt of the shrunk candidate's
\* log, in a run whose first fix call had been sent a timeout
C18_Witness ==
    /\ pc = "ShrinkRecompile"
    /\ sent[Len(sent)].kind = "fix"
    /\ sent[Len(sent)].error = ErrorMsg(LogFatal)
    /\ Len(sent[Len(sent)].error) = EXCERPT_LINES
    /\ sent[3].kind = "fix"
    /\ sent[3].error = TimeoutMsg
    /\ conversation = Append(sent, AssistantTurn(genCalls))

\* C19: a compile attempt in which no pass times out or raises runs pdflatex
\* exactly twice, the second pass after the first in the same directory and
\* on the same source, whatever the first pass's exit status; the log is read
\* and the outcome (success or compile failure) made only after the second.
C19_TwoPasses ==
    /\ [](cpc = "check" =>
            /\ passesRun = 2
            /\ run_num = LAST_PASS
            /\ tempDirExists
            /\ ~logParsed
            /\ ret = NoRet)
    /\ [](ret.kind \in {"success", "failure"} =>
            /\ cpc = "returned"
            /\ passesRun = 2
            /\ logParsed)
    /\ [][(cpc = "pass" /\ run_num = 1 /\ cpc' # "returned") =>
            /\ passesRun = 0
            /\ passesRun' = 1
            /\ returncode' \in {0, 1}
            /\ cpc' = "pass"
            /\ run_num' = 2
            /\ tempDirExists /\ tempDirExists'
            /\ ~logParsed'
            /\ ret' = NoRet]_vars
    /\ [][(cpc = "pass" /\ run_num = 2) => (passesRun = 1 /\ passesRun' = 2)]_vars
    /\ [][(cpc \in {"pass", "check"}) => optimized_latex' = optimized_latex]_vars
    /\ [][(ret.kind = "none" /\ ret'.kind \in {"success", "failure"}) =>
            (cpc = "check" /\ passesRun = 2)]_vars

\* the first pass ended with exit status 1 and no resume.pdf, and the second
\* pass is the next thing the attempt does
C19_Witness ==
    /\ cpc = "pass"
    /\ run_num = 2
    /\ passesRun = 1
    /\ returncode = 1
    /\ ~pdfExists
    /\ tempDirExists

\* C20: after the two passes the outcome follows from resume.pdf alone,
\* whatever the passes' exit statuses: if the file exists the attempt returns
\* success (unless reading the file raises) with the content, no error and
\* the page count of the log's output line, 0 when the log has none; if it
\* does not exist the attempt returns a failure with no content, a non-empty
\* error and page count 0.
C20_SuccessIffOutputFile ==
    [][(cpc = "check") =>
        /\ passesRun = 2
        /\ cpc' = "returned"
        /\ pdfExists => ret'.kind \in {"success", "exception"}
        /\ ~pdfExists => ret'.kind = "failure"
        /\ ret'.kind = "success" =>
              /\ pdfExists
              /\ ret'.pdf_bytes
              /\ ret'.error = NoError
              /\ \A n \in 1..MaxPages : logFile = LogPages(n) => ret'.page_count = n
              /\ logFile \notin LogsWithPageCount => ret'.page_count = 0
        /\ ret'.kind \in {"failure", "exception"} =>
              /\ ~ret'.pdf_bytes
              /\ Truthy(ret'.error)
              /\ ret'.page_count = 0]_vars

\* a success of two pages returned after a last pass that exited with status 1
C20_Witness ==
    /\ cpc = "returned"
    /\ ret.kind = "success"
    /\ returncode = 1
    /\ passesRun = 2
    /\ ret.page_count = 2
    /\ ret.pdf_bytes

\* the lines of log that begin with the fatal-error marker
MarkerLines(log) == {i \in 1..Len(log) : StartsWithBang(log[i])}
\* err is line i of log and the lines after it, four of them at most
IsExcerptAt(err, log, i) ==
    /\ Len(err) = 1 + (IF Len(log) - i <= 4 THEN Len(log) - i ELSE 4)
    /\ \A k \in 1..Len(err) : err[k] = log[i + k - 1]

\* C21: when resume.pdf does not exist after the two passes, the error is
\* the first log line that begins with "!" and the lines that follow it, four
\* at most, in log order; when no line begins with "!", or there is no log,
\* it is the fixed message "PDF compilation failed.".  The page count is 0
\* in both cases.
C21_ErrorExcerpt ==
    [][(cpc = "check" /\ ~pdfExists) =>
        /\ passesRun = 2
        /\ ret'.kind = "failure"
        /\ ret'.page_count = 0
        /\ ~ret'.pdf_bytes
        /\ (logFile # NoLog /\ MarkerLines(logFile) # {}) =>
              \E i \in MarkerLines(logFile) :
                 /\ \A j \in MarkerLines(logFile) : i <= j
                 /\ IsExcerptAt(ret'.error, logFile, i)
        /\ (logFile = NoLog \/ MarkerLines(logFile) = {}) =>
              ret'.error = << <<"PDF compilation failed.">> >>]_vars

\* a failure whose error is lines 2 to 6 of a seven-line log: the first "!"
\* line, a second one among the four that follow, and not the log's last line
C21_Witness ==
    /\ cpc = "returned"
    /\ ret.kind = "failure"
    /\ ret.error = <<LogFatal[2], LogFatal[3], LogFatal[4], LogFatal[5], LogFatal[6]>>
    /\ ret.page_count = 0
    /\ passesRun = 2

\* the latest shrink attempt's candidate did not compile, and neither did
\* the candidate of its nested fix call, the current one
NestedFixFailed ==
    /\ pc \in {"Returning", "Done"}
    /\ Len(conversation) >= 6
    /\ conversation[Len(conversation) - 3].kind = "shrink"
    /\ conversation[Len(conversation) - 1].kind = "fix"
    /\ Len(history) = genCalls
    /\ LastAttempt.failed
    /\ history[Len(history) - 1].failed

\* C22: when a shrunk candidate fails to compile and the candidate of the
\* nested fix call fails to compile as well, the page count is recorded as 0
\* and the shrink loop ends at once, whatever number of shrink attempts is
\* left; the run makes no further call and returns that candidate, which
\* does not compile, with success = true.
C22_ShrinkEndsOnDoubleFailure ==
    /\ [][(pc = "ShrinkRecompile" /\ cpc = "returned" /\ Truthy(ret.error)) =>
            /\ page_count' = 0
            /\ pc' = "Returning"
            /\ shrink' = shrink
            /\ optimized_latex' = optimized_latex]_vars
    /\ [](NestedFixFailed =>
            /\ page_count = 0
            /\ ~Raised
            /\ optimized_latex = LastAttempt.doc
            /\ optimized_latex = genCalls
            /\ compileAttempts = genCalls
            /\ shrinkCalls = shrink
            /\ Done =>
                  /\ result.success
                  /\ result.optimized_latex = LastAttempt.doc)

\* the first shrink attempt ended that way: one shrink call of the two
\* allowed, and the run returned the nested fix's candidate
C22_Witness ==
    /\ Done
    /\ NestedFixFailed
    /\ shrinkCalls = 1
    /\ shrinkCalls < MAX_PAGE_SHRINK_ATTEMPTS
    /\ result.success
    /\ result.optimized_latex = genCalls
    /\ LastAttempt.kind = "failure"

\* C23: a run that returns success = true returns the content of the
\* transcript's last assistant turn, the candidate of the latest generation
\* call, and no earlier candidate, whatever the compile attempts of the
\* earlier candidates and of this one returned.
C23_ReturnsLatestCandidate ==
    (Done /\ result.success) =>
        /\ conversation # << >>
        /\ LastTurn.role = "assistant"
        /\ LastTurn.kind = "candidate"
        /\ result.optimized_latex = LastTurn.doc
        /\ result.optimized_latex = genCalls
        /\ \A i \in Candidates :
              i < Len(conversation) => result.optimized_latex # conversation[i].doc

\* the draft compiled to 2 pages, and the returned candidate, generated
\* later, did not compile
C23_Witness ==
    /\ Done
    /\ result.success
    /\ Len(history) >= 2
    /\ ~history[1].failed
    /\ history[1].page_count = 2
    /\ LastAttempt.failed
    /\ result.optimized_latex = LastAttempt.doc
    /\ result.optimized_latex # history[1].doc

====
